---- MODULE Spec2Model ----
(***************************************************************************)
(* Model of backends/ebpf/ebpfTable.cpp: the table and counter lowering of *)
(* the eBPF back end.                                                      *)
(*                                                                         *)
(* Two machines share the module.                                          *)
(*  - The counter machine (SpecCounter) runs the code that                 *)
(*    EBPFCounterTable::emitCounterIncrement / emitCounterAdd emit, one    *)
(*    statement at a time, in several execution contexts over one map.     *)
(*  - The compilation machine (SpecKey, SpecInstance, SpecActions,         *)
(*    SpecUnit) runs the EBPFTable emitters over the tables of one         *)
(*    compilation unit.                                                    *)
(*  - SpecInit and SpecEncode run, after the compilation, the code that    *)
(*    emitInitializer and emitKey emitted.                                 *)
(***************************************************************************)
EXTENDS Integers, Naturals, Sequences, FiniteSets, TLC

VARIABLES
    \* ---- counter machine (run time of the emitted counter code) ----
    map0,        \* the counter map before the first invocation
    map,         \* the counter map: index -> value, or Absent
    pc,          \* per context: "idle", "lookup" (before the lookup), "update"
    method,      \* per context: "increment" or "add"
    index,       \* per context: the key of the invocation
    inc,         \* per context: the delta (1 for increment)
    value,       \* per context: TRUE iff the looked-up pointer is not NULL
    done,        \* per index: number of completed invocations
    total,       \* per index: sum of the deltas of the completed invocations
    inits,       \* per index: completed invocations that took the else branch
    adds,        \* per index: completed invocations that were add()
    last,        \* the last completed invocation
    concurrent,  \* TRUE once an invocation started while another was running
    \* ---- compilation machine ----
    tables,      \* the tables of the compilation unit (the input)
    step,        \* per table: the next emitter to run
    keyFieldNames, \* per table: EBPFTable::keyFieldNames after the constructor
    diag,        \* per table: the errors reported so far, in order
    keyStruct,   \* per table: fields of the emitted key struct
    idDefines,   \* per table: the emitted "#define <name> <id>" lines
    mapDecls,    \* per table: the emitTableDecl calls made
    keyCode,     \* per table: the statements emitKey emitted
    actionCode,  \* per table: the switch emitAction emitted
    initCode,    \* per table: the statements emitInitializer emitted
    \* ---- run time of the emitted table code ----
    run,         \* per table: the run of the emitted initializer
    enc          \* the run of the emitted key code of table 1 on one value

counterVars == <<map0, map, pc, method, index, inc, value, done, total, inits,
                 adds, last, concurrent>>
runVars == <<run, enc>>
tableVars == <<tables, step, keyFieldNames, diag, keyStruct, idDefines,
               mapDecls, keyCode, actionCode, initCode, runVars>>
vars == <<counterVars, tableVars>>

(***************************************************************************)
(* Bounds                                                                  *)
(***************************************************************************)
NumCtx == 3
MaxCalls == 4
MaxInc == 2
MaxInitial == 1

(***************************************************************************)
(* EBPFCounterTable: the emitted increment / add code                      *)
(***************************************************************************)
\* A counter value is a number of the counter value type; the runs here stay
\* far below its range.  Absent is the NULL of a failed lookup.
Absent == -1
Ctx == 1..NumCtx
Indices == {0}
Incs == 0..MaxInc
NoCall == [method |-> "none", index |-> 0, inc |-> 0, found |-> FALSE,
           old |-> Absent, new |-> Absent]

\* What the code emitted by emitCounterIncrement leaves in the slot:
\* "if (value != NULL) __sync_fetch_and_add(value, 1); else update(init_val)".
\* found is the outcome of the lookup, cur the slot when the statement runs.
emitCounterIncrementNoInit(found, cur) ==
    LET init_val == 0
    IN  IF found THEN cur + 1 ELSE init_val

emitCounterIncrementNoAdd(found, cur) ==
    LET init_val == 1
    IN  IF found THEN cur ELSE init_val

emitCounterIncrement(found, cur) ==
    LET init_val == 1
    IN  IF found THEN cur + 1 ELSE init_val

\* What the code emitted by emitCounterAdd leaves in the slot:
\* "if (value != NULL) __sync_fetch_and_add(value, inc); else update(init_val)"
\* with "init_val = 1".
emitCounterAddStore(found, cur, d) ==
    LET init_val == 1
    IN  IF found THEN d ELSE init_val

emitCounterAdd(found, cur, d) ==
    LET init_val == 1
    IN  IF found THEN cur + d ELSE init_val

InFlight == {c \in Ctx : pc[c] # "idle"}
RECURSIVE SumOver(_, _)
SumOver(f, S) ==
    IF S = {} THEN 0
    ELSE LET i == CHOOSE x \in S : TRUE IN f[i] + SumOver(f, S \ {i})
Started == SumOver(done, Indices) + Cardinality(InFlight)

\* emitMethodInvocation: a context starts counter.increment(i) or
\* counter.add(i, d); the key and the delta are evaluated into locals.
Invoke(c, m, i, d) ==
    /\ pc[c] = "idle"
    /\ Started < MaxCalls
    /\ pc' = [pc EXCEPT ![c] = "lookup"]
    /\ method' = [method EXCEPT ![c] = m]
    /\ index' = [index EXCEPT ![c] = i]
    /\ inc' = [inc EXCEPT ![c] = d]
    /\ concurrent' = (concurrent \/ InFlight # {})
    /\ UNCHANGED <<map0, map, value, done, total, inits, adds, last>>

\* emitTableLookup: value = lookup(map, key).
Lookup(c) ==
    /\ pc[c] = "lookup"
    /\ value' = [value EXCEPT ![c] = (map[index[c]] # Absent)]
    /\ pc' = [pc EXCEPT ![c] = "update"]
    /\ UNCHANGED <<map0, map, method, index, inc, done, total, inits, adds,
                   last, concurrent>>

\* The if/else after the lookup: one atomic add in place, or the upsert.
Update(c) ==
    /\ pc[c] = "update"
    /\ LET i == index[c]
           new == IF method[c] = "increment"
                  THEN emitCounterIncrement(value[c], map[i])
                  ELSE emitCounterAdd(value[c], map[i], inc[c])
       IN  /\ map' = [map EXCEPT ![i] = new]
           /\ done' = [done EXCEPT ![i] = @ + 1]
           /\ total' = [total EXCEPT ![i] = @ + inc[c]]
           /\ inits' = [inits EXCEPT ![i] = @ + (IF value[c] THEN 0 ELSE 1)]
           /\ adds' = [adds EXCEPT ![i] = @ + (IF method[c] = "add" THEN 1 ELSE 0)]
           /\ last' = [method |-> method[c], index |-> i, inc |-> inc[c],
                       found |-> value[c], old |-> map[i], new |-> new]
    /\ pc' = [pc EXCEPT ![c] = "idle"]
    /\ method' = [method EXCEPT ![c] = "none"]
    /\ index' = [index EXCEPT ![c] = 0]
    /\ inc' = [inc EXCEPT ![c] = 0]
    /\ value' = [value EXCEPT ![c] = FALSE]
    /\ UNCHANGED <<map0, concurrent>>

(***************************************************************************)
(* Claims about the counter code                                           *)
(***************************************************************************)
Base(i) == IF map0[i] = Absent THEN 0 ELSE map0[i]

\* C1: add(index, delta) leaves delta in the slot when the lookup found the
\* index absent, and the old value plus delta when it found it present.
C1_AddInitializesToDelta ==
    last.method = "add" =>
        last.new = (IF last.found THEN last.old + last.inc ELSE last.inc)

\* C2: increments run one after the other: on an absent index the first one
\* upserts 1, on a present index with value v one leaves v + 1, and after k
\* increments on an initially absent index the counter is k.
C2_SequentialIncrement ==
    ~concurrent =>
        /\ last.method = "increment" =>
               last.new = (IF last.old = Absent THEN 1 ELSE last.old + 1)
        /\ \A i \in Indices :
               (adds[i] = 0 /\ done[i] >= 1) => map[i] = Base(i) + done[i]

C2_Witness ==
    /\ ~concurrent
    /\ map0[0] = Absent
    /\ adds[0] = 0
    /\ done[0] = 2
    /\ map[0] = 2
    /\ last.method = "increment"
    /\ last.found

\* C3: when the slot exists before the first invocation, every invocation
\* takes the present branch and no update is lost under any interleaving:
\* the slot holds the initial value plus the deltas of the completed
\* invocations (1 per increment).
C3_NoLostUpdateOnExistingSlot ==
    \A i \in Indices :
        map0[i] # Absent =>
            /\ inits[i] = 0
            /\ \A c \in Ctx : (pc[c] = "update" /\ index[c] = i) => value[c]
            /\ map[i] = map0[i] + total[i]

C3_Witness ==
    /\ concurrent
    /\ map0[0] # Absent
    /\ InFlight = {}
    /\ done[0] >= 3
    /\ adds[0] >= 1
    /\ adds[0] < done[0]
    /\ total[0] > done[0]
    /\ map[0] = map0[0] + total[0]

\* C4: concurrent increments on an initially absent index: the counter is
\* between 1 and the number N of completed increments, and it equals N
\* whenever at most one of them took the initialize-on-absent branch.
C4_UndercountOnlyByFirstTouchRace ==
    \A i \in Indices :
        (map0[i] = Absent /\ adds[i] = 0 /\ done[i] >= 1) =>
            /\ 1 <= map[i]
            /\ map[i] <= done[i]
            /\ inits[i] <= 1 => map[i] = done[i]

\* Two first-touch initializations raced and an increment was lost.
C4_Witness ==
    /\ map0[0] = Absent
    /\ adds[0] = 0
    /\ InFlight = {}
    /\ inits[0] >= 2
    /\ done[0] = 3
    /\ map[0] < done[0]


NoTables ==
    /\ tables = <<>>
    /\ step = <<>>
    /\ keyFieldNames = <<>>
    /\ diag = <<>>
    /\ keyStruct = <<>>
    /\ idDefines = <<>>
    /\ mapDecls = <<>>
    /\ keyCode = <<>>
    /\ actionCode = <<>>
    /\ initCode = <<>>
    /\ run = <<>>
    /\ enc = <<>>

InitCounter ==
    /\ map0 \in [Indices -> {Absent} \cup 0..MaxInitial]
    /\ map = map0
    /\ pc = [c \in Ctx |-> "idle"]
    /\ method = [c \in Ctx |-> "none"]
    /\ index = [c \in Ctx |-> 0]
    /\ inc = [c \in Ctx |-> 0]
    /\ value = [c \in Ctx |-> FALSE]
    /\ done = [i \in Indices |-> 0]
    /\ total = [i \in Indices |-> 0]
    /\ inits = [i \in Indices |-> 0]
    /\ adds = [i \in Indices |-> 0]
    /\ last = NoCall
    /\ concurrent = FALSE
    /\ NoTables

NextCounter ==
    \/ \E c \in Ctx, i \in Indices : Invoke(c, "increment", i, 1) /\ UNCHANGED tableVars
    \/ \E c \in Ctx, i \in Indices, d \in Incs : Invoke(c, "add", i, d) /\ UNCHANGED tableVars
    \/ \E c \in Ctx : Lookup(c) /\ UNCHANGED tableVars
    \/ \E c \in Ctx : Update(c) /\ UNCHANGED tableVars

SpecCounter == InitCounter /\ [][NextCounter]_vars

(***************************************************************************)
(* EBPFTable: the input, a P4 table of the compilation unit                *)
(***************************************************************************)
MaxKeyLen == 3
MaxMatchLen == 3
MaxActions == 2

\* Names are character sequences, so that upper-casing and concatenation are
\* computed and not assumed.
Str_t == <<"t">>
Str_T == <<"T">>
Str_a == <<"a">>
Str_A == <<"A">>
Str_b == <<"b">>
noAction == <<"N", "o", "A", "c", "t", "i", "o", "n">>

\* cstring::toUpper, character by character.
ToUpperChar(c) ==
    CASE c = "a" -> "A"
      [] c = "b" -> "B"
      [] c = "c" -> "C"
      [] c = "i" -> "I"
      [] c = "n" -> "N"
      [] c = "o" -> "O"
      [] c = "t" -> "T"
      [] OTHER -> c
toUpper(s) == [k \in 1..Len(s) |-> ToUpperChar(s[k])]

MatchKinds == {"exact", "ternary", "lpm", "selector"}
\* "range" is a match kind of the language that this back end does not know.
AllMatchKinds == MatchKinds \cup {"range"}
\* implementationWidthInBits() of the key field's type.
Widths == {8, 16, 24, 32, 64, 72}

KeyElement(m, hw, w) == [matchType |-> m, hasWidth |-> hw, width |-> w]
\* Key elements of every match kind the back end knows, of every width, and
\* of a type without a width (IHasWidth is not implemented).
KeyElements ==
    {KeyElement(m, TRUE, w) : m \in MatchKinds, w \in Widths}
        \cup {KeyElement(m, FALSE, 0) : m \in MatchKinds}
\* Key elements that differ in the match kind only.
MatchElements == {KeyElement(m, TRUE, 32) : m \in AllMatchKinds}

SeqsUpTo(S, n) == UNION {[1..k -> S] : k \in 0..n}

Action(orig, ext) == [originalName |-> orig, externalName |-> ext]
NoAction == Action(noAction, noAction)
Str_a_ACT_b == <<"a", "_", "A", "C", "T", "_", "b">>
Str_t_ACT_a == <<"t", "_", "A", "C", "T", "_", "a">>
ActionSet == {NoAction, Action(Str_a, Str_a), Action(Str_A, Str_A),
              Action(Str_b, Str_b), Action(Str_a_ACT_b, Str_a_ACT_b)}
\* The instance names of the tables of a unit, which are pairwise different.
TableNames == <<Str_t, Str_T, Str_t_ACT_a>>
\* The type checker rejects an action list that names an action twice.
ActionLists ==
    {l \in SeqsUpTo(ActionSet, MaxActions) :
        \A j, k \in 1..Len(l) : j # k => l[j] # l[k]}

\* The implementation property of the table, by what emitInstance tells apart.
Impls == {"missing", "notExpressionValue", "notConstructorCall",
          "notExternBlock", "array_table", "hash_table", "otherExtern"}
\* The size argument of the implementation: missing, not a constant, or a
\* constant that fits an int or does not.
Size(k, fits, v) == [kind |-> k, fitsInt |-> fits, value |-> v]
Sizes == {Size("missing", FALSE, 0), Size("notConstant", FALSE, 0),
          Size("constant", FALSE, 0)}
             \cup {Size("constant", TRUE, v) : v \in {-1, 0, 1, 1024}}

\* A static entry: its key (an identifier of the key value) and its action.
Entry(key, action) == [key |-> key, action |-> action]
\* The entries property: absent, or a list of entries.
NoEntries == [present |-> FALSE, list |-> <<>>]
Entries(l) == [present |-> TRUE, list |-> l]

\* A table whose default action is NoAction and that has no entries property.
Table(name, hasKey, keys, actions, impl, size) ==
    [dataMapName |-> name, hasKey |-> hasKey, keyElements |-> keys,
     actionList |-> actions, impl |-> impl, size |-> size,
     defaultAction |-> NoAction, entries |-> NoEntries]
WithInitializer(t, defaultAction, entries) ==
    [t EXCEPT !.defaultAction = defaultAction, !.entries = entries]

\* One exact 32-bit key field, NoAction and one action, 1024 entries, hash.
DefaultKey == <<KeyElement("exact", TRUE, 32)>>
DefaultActions == <<NoAction, Action(Str_a, Str_a)>>
DefaultSize == Size("constant", TRUE, 1024)

Error(type, msg) == [type |-> type, msg |-> msg]

(***************************************************************************)
(* EBPFTable: key layout                                                   *)
(***************************************************************************)
\* initKey: names field0, field1, ... for the key elements up to the first
\* one whose type has no width; there it reports the error and returns.
Named(t) ==
    IF ~t.hasKey THEN 0
    ELSE LET bad == {k \in 1..Len(t.keyElements) : ~t.keyElements[k].hasWidth}
         IN  IF bad = {} THEN Len(t.keyElements)
             ELSE (CHOOSE k \in bad : \A j \in bad : k <= j) - 1

initKeyNames(t) == [k \in 1..Named(t) |-> k - 1]

initKeyDiag(t) ==
    IF t.hasKey /\ Named(t) < Len(t.keyElements)
    THEN <<Error("ERR_TYPE_ERROR", "illegal type for key field")>>
    ELSE <<>>

validateKeysLastElement(t) ==
    IF ~t.hasKey THEN <<>>
    ELSE LET keys == t.keyElements
             pos == [k \in 1..Len(keys) |-> k]
             late == SelectSeq(pos, LAMBDA k :
                         keys[k].matchType = "lpm" /\ k # Len(keys))
         IN  [j \in 1..Len(late) |->
                 Error("ERR_UNSUPPORTED", "field key must be at the end of whole key")]

\* validateKeys: one error per lpm key element that is not the last element
\* whose match kind is not selector.
validateKeys(t) ==
    IF ~t.hasKey THEN <<>>
    ELSE LET keys == t.keyElements
             notSel == {k \in 1..Len(keys) : keys[k].matchType # "selector"}
             lastKey == IF notSel = {} THEN 0
                        ELSE CHOOSE k \in notSel : \A j \in notSel : j <= k
             pos == [k \in 1..Len(keys) |-> k]
             late == SelectSeq(pos, LAMBDA k :
                         keys[k].matchType = "lpm" /\ k # lastKey)
         IN  [j \in 1..Len(late) |->
                 Error("ERR_UNSUPPORTED", "field key must be at the end of whole key")]

\* isLPMTable: scans the key elements in order; a ternary element ends the
\* scan with false, an lpm element sets the flag.
RECURSIVE isLPMScan(_, _, _)
isLPMScan(keys, k, isLPM) ==
    IF k > Len(keys) THEN isLPM
    ELSE IF keys[k].matchType = "ternary" THEN FALSE
    ELSE IF keys[k].matchType = "lpm" THEN isLPMScan(keys, k + 1, TRUE)
    ELSE isLPMScan(keys, k + 1, isLPM)

RECURSIVE isLPMScanAnyLpm(_, _, _)
isLPMScanAnyLpm(keys, k, isLPM) ==
    IF k > Len(keys) THEN isLPM
    ELSE IF keys[k].matchType = "lpm" THEN isLPMScanAnyLpm(keys, k + 1, TRUE)
    ELSE isLPMScanAnyLpm(keys, k + 1, isLPM)

isLPMTableAnyLpm(t) == t.hasKey /\ isLPMScanAnyLpm(t.keyElements, 1, FALSE)

isLPMTable(t) == t.hasKey /\ isLPMScan(t.keyElements, 1, FALSE)

isMatchTypeSupported(m) == m \in MatchKinds

prefixLenFieldWidth == 32

KeyField(name, bits) == [name |-> name, bits |-> bits]

\* emitKeyType dereferences the type of every key element; an element that
\* initKey did not reach has none, and the call through the null pointer
\* ends the compiler before the struct is complete.
emitKeyTypeCrashes(t, names) == t.hasKey /\ Len(names) < Len(t.keyElements)

\* emitKeyType: the fields of the key struct, in order.
emitKeyType(t, names) ==
    LET keys == IF t.hasKey THEN t.keyElements ELSE <<>>
        prefix == IF isLPMTable(t)
                  THEN <<KeyField("prefixlen", prefixLenFieldWidth)>>
                  ELSE <<>>
        fields == [k \in 1..Len(keys) |-> KeyField(names[k], keys[k].width)]
        dummy == IF Len(names) = 0
                 THEN <<KeyField("__dummy_table_key", 8)>>
                 ELSE <<>>
    IN  prefix \o fields \o dummy

emitKeyTypeDiag(t) ==
    LET keys == IF t.hasKey THEN t.keyElements ELSE <<>>
        bad == SelectSeq(keys, LAMBDA c : ~isMatchTypeSupported(c.matchType))
    IN  [j \in 1..Len(bad) |-> Error("ERR_UNSUPPORTED", "Match of type not supported")]

(***************************************************************************)
(* EBPFTable: action IDs                                                   *)
(***************************************************************************)
isNoAction(a) == a.originalName = noAction

Str_ACT == <<"_", "A", "C", "T", "_">>

\* p4ActionToActionIDName: "0" for NoAction, else <TABLE>_ACT_<ACTION>.
p4ActionToActionIDName(t, a) ==
    IF isNoAction(a) THEN <<"0">>
    ELSE toUpper(t.dataMapName) \o Str_ACT \o toUpper(a.externalName)

Define(name, id) == [name |-> name, id |-> id]

\* emitValueActionIDNames: the loop over the action list, action_idx being
\* the next ID; NoAction gets no #define and uses up no ID.
RECURSIVE actionIDLoop(_, _, _)
actionIDLoop(t, k, action_idx) ==
    IF k > Len(t.actionList) THEN <<>>
    ELSE IF isNoAction(t.actionList[k]) THEN actionIDLoop(t, k + 1, action_idx)
    ELSE <<Define(p4ActionToActionIDName(t, t.actionList[k]), action_idx)>>
             \o actionIDLoop(t, k + 1, action_idx + 1)

emitValueActionIDNames(t) == actionIDLoop(t, 1, 1)

(***************************************************************************)
(* EBPFTable: map declarations                                             *)
(***************************************************************************)
\* One emitTableDecl call: map name, kind, key type, value type, size.
MapDecl(which, kind, keyType, valueType, size) ==
    [map |-> which, kind |-> kind, keyType |-> keyType,
     valueType |-> valueType, size |-> size]

DefaultActionDeclAsPrimary ==
    MapDecl("defaultActionMapName", "TableHash", "struct keyTypeName",
            "struct valueTypeName", 1024)

\* The default-action map: an array of one value, indexed by arrayIndexType.
DefaultActionDecl ==
    MapDecl("defaultActionMapName", "TableArray", "arrayIndexType",
            "struct valueTypeName", 1)
Emitted(errors, decls) == [diag |-> errors, decls |-> decls]

\* The loop of emitInstance over the key elements: lpm makes the table an
\* LPM trie, a second lpm is an error.
RECURSIVE lpmLoop(_, _, _)
lpmLoop(keys, k, tableKind) ==
    IF k > Len(keys) THEN tableKind
    ELSE IF keys[k].matchType = "lpm"
         THEN IF tableKind = "TableLPMTrie" THEN "error"
              ELSE lpmLoop(keys, k + 1, "TableLPMTrie")
    ELSE lpmLoop(keys, k + 1, tableKind)

RECURSIVE lpmLoopNoLimit(_, _, _)
lpmLoopNoLimit(keys, k, tableKind) ==
    IF k > Len(keys) THEN tableKind
    ELSE IF keys[k].matchType = "lpm"
         THEN lpmLoopNoLimit(keys, k + 1, "TableLPMTrie")
    ELSE lpmLoopNoLimit(keys, k + 1, tableKind)

tableKindNoLimit(t, hint) == lpmLoopNoLimit(t.keyElements, 1, hint)

\* The table kind after the loop over the key elements, or "error".
tableKind(t, hint) == lpmLoop(t.keyElements, 1, hint)

\* emitInstance: the errors it reports and the emitTableDecl calls it makes.
emitInstance(t) ==
    IF ~t.hasKey THEN Emitted(<<>>, <<DefaultActionDecl>>)
    ELSE IF t.impl = "missing"
    THEN Emitted(<<Error("ERR_EXPECTED", "Table does not have an implementation property")>>, <<>>)
    ELSE IF t.impl \in {"notExpressionValue", "notConstructorCall", "notExternBlock"}
    THEN Emitted(<<Error("ERR_EXPECTED", "Expected property to be an extern block")>>, <<>>)
    ELSE IF t.impl \notin {"array_table", "hash_table"}
    THEN Emitted(<<Error("ERR_EXPECTED", "implementation must be one of array_table or hash_table")>>, <<>>)
    ELSE LET hint == IF t.impl = "array_table" THEN "TableArray" ELSE "TableHash"
             kind == tableKind(t, hint)
             sz == t.size
         IN  IF kind = "error"
             THEN Emitted(<<Error("ERR_UNSUPPORTED", "only one LPM field allowed")>>, <<>>)
             ELSE IF sz.kind # "constant"
             THEN Emitted(<<Error("ERR_UNSUPPORTED", "Expected an integer argument")>>, <<>>)
             ELSE IF ~sz.fitsInt
             THEN Emitted(<<Error("ERR_UNSUPPORTED", "size too large")>>, <<>>)
             ELSE IF sz.value <= 0
             THEN Emitted(<<Error("ERR_INVALID", "negative size")>>, <<>>)
             ELSE Emitted(<<>>, <<MapDecl("dataMapName", kind, "struct keyTypeName",
                                          "struct valueTypeName", sz.value),
                                  DefaultActionDecl>>)

(***************************************************************************)
(* EBPFTable: key encoding                                                 *)
(***************************************************************************)
\* EBPFScalarType::generatesScalar and bytesRequired.
generatesScalar(width) == width \in {8, 16, 32, 64}
bytesRequired(width) == (width + 7) \div 8

swapAlwaysLong(width) ==
    IF width <= 8 THEN ""
    ELSE IF width <= 64 THEN "bpf_htonl"
    ELSE ""

\* The byte-order conversion emitKey picks for a width.
swap(width) ==
    IF width <= 8 THEN ""
    ELSE IF width <= 16 THEN "bpf_htons"
    ELSE IF width <= 32 THEN "bpf_htonl"
    ELSE IF width <= 64 THEN "bpf_htonll"
    ELSE ""

isLPMKeyBigEndian(t, c) == isLPMTable(t) /\ c.matchType = "lpm"

Stmt(op, field, conv, bytes, src, trace) ==
    [op |-> op, field |-> field, swap |-> conv, bytes |-> bytes, src |-> src,
     trace |-> trace]

emitKeyFieldRotated(t, c, number) ==
    LET memcpy == ~generatesScalar(c.width)
        n == bytesRequired(c.width)
    IN  IF memcpy
        THEN IF isLPMKeyBigEndian(t, c)
             THEN Stmt("bytes", number, "", n, [b \in 1..n |-> b % n], "presence")
             ELSE Stmt("memcpy", number, "", n, <<>>, "presence")
        ELSE Stmt("assign", number,
                  IF isLPMKeyBigEndian(t, c) THEN swap(c.width) ELSE "",
                  0, <<>>, "value")

\* The statement emitKey emits for key element c stored in field
\* "field<number>", followed by its trace message.
emitKeyField(t, c, number) ==
    LET memcpy == ~generatesScalar(c.width)
        n == bytesRequired(c.width)
    IN  IF memcpy
        THEN IF isLPMKeyBigEndian(t, c)
             THEN Stmt("bytes", number, "", n, [b \in 1..n |-> n - (b - 1) - 1], "presence")
             ELSE Stmt("memcpy", number, "", n, <<>>, "presence")
        ELSE Stmt("assign", number,
                  IF isLPMKeyBigEndian(t, c) THEN swap(c.width) ELSE "",
                  0, <<>>, "value")

\* emitKey: the prefix length of an LPM table, then one statement per key
\* element that has a field name and a type.
emitKey(t, names) ==
    IF ~t.hasKey THEN <<>>
    ELSE LET prefix == IF isLPMTable(t)
                       THEN <<Stmt("prefixlen", -1, "", 0, <<>>, "none")>>
                       ELSE <<>>
         IN  prefix \o [k \in 1..Len(names) |->
                           emitKeyField(t, t.keyElements[k], names[k])]

emitKeyDiag(t, names) ==
    IF ~t.hasKey THEN <<>>
    ELSE LET wide == SelectSeq(names, LAMBDA n : t.keyElements[n + 1].width > 64)
         IN  [j \in 1..Len(wide) |->
                 Error("ERR_UNSUPPORTED", "fields wider than 64 bits are not supported yet")]

(***************************************************************************)
(* EBPFTable: action dispatch                                              *)
(***************************************************************************)
\* One "case <label>:" of the emitted switch: the trace and body of the
\* action called name, and the statement the branch ends with.
Branch(label, name, ends) == [label |-> label, name |-> name, ends |-> ends]
Str_default == <<"d", "e", "f", "a", "u", "l", "t">>

\* emitAction: "switch (value->action)" with one case per action of the
\* action list, in list order, each ended by "break;", and then "default:"
\* which traces "Invalid action type, aborting" and returns the abort code.
emitAction(t) ==
    [k \in 1..Len(t.actionList) |->
        Branch(p4ActionToActionIDName(t, t.actionList[k]),
               t.actionList[k].externalName, "break")]
    \o <<Branch(Str_default, <<>>, "return abortReturnCode")>>

(***************************************************************************)
(* EBPFTable: initializer                                                  *)
(***************************************************************************)
\* The value literal: ".action = <ID name>, .u = {.<name> = {...}}".
Value(action, name) == [action |-> action, u |-> name]
NoValue == Value(<<>>, <<>>)
zeroKey == 0
\* One emitted statement with the check that follows it:
\*   open:   fd = BPF_OBJ_GET(MAP_PATH "/<map>"); if (fd < 0) exit(1);
\*   update: ok = update(fd, &key, &value);      if (ok != 0) exit(1);
InitStmt(op, which, key, val) == [op |-> op, map |-> which, key |-> key, value |-> val]
ValueOf(t, a) == Value(p4ActionToActionIDName(t, a), a.externalName)

initializeDefault(t) ==
    <<InitStmt("open", "defaultActionMapName", zeroKey, NoValue),
      InitStmt("update", "defaultActionMapName", zeroKey, ValueOf(t, t.defaultAction))>>

initializeEntries(t) ==
    <<InitStmt("open", "dataMapName", zeroKey, NoValue)>>
    \o [k \in 1..Len(t.entries.list) |->
           InitStmt("update", "dataMapName", t.entries.list[k].key,
                    ValueOf(t, t.entries.list[k].action))]

emitInitializerEntriesFirst(t) ==
    IF ~t.entries.present THEN initializeDefault(t)
    ELSE initializeEntries(t) \o initializeDefault(t)

\* emitInitializer: the block of the default action, then, if the table has
\* an entries property, the block of the entries.
emitInitializer(t) ==
    IF ~t.entries.present THEN initializeDefault(t)
    ELSE initializeDefault(t) \o initializeEntries(t)

(***************************************************************************)
(* The compilation machine: the emitters run once per table, in the order  *)
(* types, instance, key code, action dispatch, initializer; a crash of one *)
(* emitter ends the compilation of the whole unit.                         *)
(***************************************************************************)
T == 1..Len(tables)
Running == \A i \in T : step[i] # "crashed"

\* emitTypes: validateKeys, emitKeyType, emitValueType.
EmitTypes(i) ==
    /\ Running
    /\ step[i] = "types"
    /\ LET t == tables[i]
       IN  IF emitKeyTypeCrashes(t, keyFieldNames[i])
           THEN /\ step' = [step EXCEPT ![i] = "crashed"]
                /\ diag' = [diag EXCEPT ![i] = @ \o validateKeys(t)]
                /\ UNCHANGED <<keyStruct, idDefines>>
           ELSE /\ step' = [step EXCEPT ![i] = "instance"]
                /\ diag' = [diag EXCEPT ![i] =
                               @ \o validateKeys(t) \o emitKeyTypeDiag(t)]
                /\ keyStruct' = [keyStruct EXCEPT ![i] =
                                    emitKeyType(t, keyFieldNames[i])]
                /\ idDefines' = [idDefines EXCEPT ![i] = emitValueActionIDNames(t)]
    /\ UNCHANGED <<tables, keyFieldNames, mapDecls, keyCode, actionCode,
                   initCode, runVars>>

EmitInstance(i) ==
    /\ Running
    /\ step[i] = "instance"
    /\ LET r == emitInstance(tables[i])
       IN  /\ diag' = [diag EXCEPT ![i] = @ \o r.diag]
           /\ mapDecls' = [mapDecls EXCEPT ![i] = r.decls]
    /\ step' = [step EXCEPT ![i] = "key"]
    /\ UNCHANGED <<tables, keyFieldNames, keyStruct, idDefines, keyCode,
                   actionCode, initCode, runVars>>

EmitKey(i) ==
    /\ Running
    /\ step[i] = "key"
    /\ diag' = [diag EXCEPT ![i] = @ \o emitKeyDiag(tables[i], keyFieldNames[i])]
    /\ keyCode' = [keyCode EXCEPT ![i] = emitKey(tables[i], keyFieldNames[i])]
    /\ step' = [step EXCEPT ![i] = "action"]
    /\ UNCHANGED <<tables, keyFieldNames, keyStruct, idDefines, mapDecls,
                   actionCode, initCode, runVars>>

EmitAction(i) ==
    /\ Running
    /\ step[i] = "action"
    /\ actionCode' = [actionCode EXCEPT ![i] = emitAction(tables[i])]
    /\ step' = [step EXCEPT ![i] = "initializer"]
    /\ UNCHANGED <<tables, keyFieldNames, diag, keyStruct, idDefines, mapDecls,
                   keyCode, initCode, runVars>>

EmitInitializer(i) ==
    /\ Running
    /\ step[i] = "initializer"
    /\ initCode' = [initCode EXCEPT ![i] = emitInitializer(tables[i])]
    /\ step' = [step EXCEPT ![i] = "done"]
    /\ UNCHANGED <<tables, keyFieldNames, diag, keyStruct, idDefines, mapDecls,
                   keyCode, actionCode, runVars>>

(***************************************************************************)
(* The run of the emitted initializer of a table                           *)
(***************************************************************************)
MaxEntries == 2
NumEntryKeys == 2
EntryKeys == 1..NumEntryKeys

\* state: "running", "exited" (exit(1)) or "returned"; pc: the next
\* statement; failedAt: the statement whose check called exit(1), or 0;
\* log: the statements that succeeded; the contents of the two maps.
Run(state, at, failedAt, log, defaultMap, dataMap) ==
    [state |-> state, pc |-> at, failedAt |-> failedAt, log |-> log,
     defaultMap |-> defaultMap, dataMap |-> dataMap]
NotStarted == Run("running", 1, 0, <<>>, NoValue, [k \in EntryKeys |-> NoValue])

Executing(i, op) ==
    /\ Running
    /\ step[i] = "done"
    /\ run[i].state = "running"
    /\ run[i].pc <= Len(initCode[i])
    /\ initCode[i][run[i].pc].op = op

\* BPF_OBJ_GET and the check of the handle.
RunOpen(i, ok) ==
    /\ Executing(i, "open")
    /\ run' = [run EXCEPT ![i] =
                  IF ok THEN [@ EXCEPT !.pc = @ + 1,
                                       !.log = Append(@, initCode[i][run[i].pc])]
                  ELSE [@ EXCEPT !.state = "exited", !.failedAt = run[i].pc]]
    /\ UNCHANGED <<tables, step, keyFieldNames, diag, keyStruct, idDefines,
                   mapDecls, keyCode, actionCode, initCode, enc>>

\* The upsert into the map that was opened last and the check of its result.
RunUpdate(i, ok) ==
    /\ Executing(i, "update")
    /\ LET stmt == initCode[i][run[i].pc]
       IN  run' = [run EXCEPT ![i] =
                      IF ~ok
                      THEN [@ EXCEPT !.state = "exited", !.failedAt = run[i].pc]
                      ELSE IF stmt.map = "defaultActionMapName"
                      THEN [@ EXCEPT !.pc = @ + 1, !.log = Append(@, stmt),
                                     !.defaultMap = stmt.value]
                      ELSE [@ EXCEPT !.pc = @ + 1, !.log = Append(@, stmt),
                                     !.dataMap[stmt.key] = stmt.value]]
    /\ UNCHANGED <<tables, step, keyFieldNames, diag, keyStruct, idDefines,
                   mapDecls, keyCode, actionCode, initCode, enc>>

\* The end of the emitted blocks.
RunReturn(i) ==
    /\ Running
    /\ step[i] = "done"
    /\ run[i].state = "running"
    /\ run[i].pc > Len(initCode[i])
    /\ run' = [run EXCEPT ![i].state = "returned"]
    /\ UNCHANGED <<tables, step, keyFieldNames, diag, keyStruct, idDefines,
                   mapDecls, keyCode, actionCode, initCode, enc>>

(***************************************************************************)
(* The run of the emitted key code on one value                            *)
(***************************************************************************)
MaxByte == 1
Bytes == 0..MaxByte
Hosts == {"little", "big"}

\* A value is the sequence of its bytes, most significant first; a byte
\* array is the sequence of its bytes in memory order.
Reverse(v) == [k \in 1..Len(v) |-> v[Len(v) + 1 - k]]
\* Conversion of an unsigned value to a type of n bytes: zero extension or
\* truncation to the low bytes.
Resize(v, n) ==
    IF n >= Len(v) THEN [k \in 1..(n - Len(v)) |-> 0] \o v
    ELSE SubSeq(v, Len(v) - n + 1, Len(v))
ConversionBytes(conv) ==
    CASE conv = "bpf_htons" -> 2
      [] conv = "bpf_htonl" -> 4
      [] conv = "bpf_htonll" -> 8
\* bpf_htons / bpf_htonl / bpf_htonll, and as well their inverses
\* bpf_ntohs / bpf_ntohl / bpf_ntohll: the byte swap of the operand size on
\* a little-endian host, nothing on a big-endian host.
hton(host, conv, v) ==
    IF conv = "" THEN v
    ELSE LET x == Resize(v, ConversionBytes(conv))
         IN  IF host = "little" THEN Reverse(x) ELSE x

\* What one emitted statement stores in the key field, given the source.
Store(host, stmt, source) ==
    CASE stmt.op = "assign" -> Resize(hton(host, stmt.swap, source), Len(source))
      [] stmt.op = "memcpy" -> source
      [] stmt.op = "bytes" -> [b \in 1..stmt.bytes |-> source[stmt.src[b] + 1]]

Encoding(host, source) ==
    [host |-> host, stage |-> "source", source |-> source,
     stored |-> <<>>, loaded |-> <<>>]
NoEncoding == [host |-> "none", stage |-> "none", source |-> <<>>,
               stored |-> <<>>, loaded |-> <<>>]

\* The statement of the first key field of table 1.
FieldStmt ==
    LET j == CHOOSE j \in 1..Len(keyCode[1]) : keyCode[1][j].field = 0
    IN  keyCode[1][j]

\* The emitted statement runs on the source value.
Encode ==
    /\ Running
    /\ step[1] = "done"
    /\ enc.stage = "source"
    /\ enc' = [enc EXCEPT !.stage = "stored",
                          !.stored = Store(enc.host, FieldStmt, enc.source)]
    /\ UNCHANGED <<tables, step, keyFieldNames, diag, keyStruct, idDefines,
                   mapDecls, keyCode, actionCode, initCode, run>>

\* The reader of the key applies the inverse of the transform of the
\* statement: the network-to-host conversion of the same size, the same
\* reverse copy, or nothing.
Decode ==
    /\ enc.stage = "stored"
    /\ enc' = [enc EXCEPT !.stage = "loaded",
                          !.loaded = Store(enc.host, FieldStmt, enc.stored)]
    /\ UNCHANGED <<tables, step, keyFieldNames, diag, keyStruct, idDefines,
                   mapDecls, keyCode, actionCode, initCode, run>>

NoCounter ==
    /\ map0 = [i \in Indices |-> Absent]
    /\ map = map0
    /\ pc = [c \in Ctx |-> "idle"]
    /\ method = [c \in Ctx |-> "none"]
    /\ index = [c \in Ctx |-> 0]
    /\ inc = [c \in Ctx |-> 0]
    /\ value = [c \in Ctx |-> FALSE]
    /\ done = [i \in Indices |-> 0]
    /\ total = [i \in Indices |-> 0]
    /\ inits = [i \in Indices |-> 0]
    /\ adds = [i \in Indices |-> 0]
    /\ last = NoCall
    /\ concurrent = FALSE

\* The state after the EBPFTable constructors (which run initKey).
Constructed ==
    /\ step = [i \in T |-> "types"]
    /\ keyFieldNames = [i \in T |-> initKeyNames(tables[i])]
    /\ diag = [i \in T |-> initKeyDiag(tables[i])]
    /\ keyStruct = [i \in T |-> <<>>]
    /\ idDefines = [i \in T |-> <<>>]
    /\ mapDecls = [i \in T |-> <<>>]
    /\ keyCode = [i \in T |-> <<>>]
    /\ actionCode = [i \in T |-> <<>>]
    /\ initCode = [i \in T |-> <<>>]
    /\ run = [i \in T |-> NotStarted]
    /\ NoCounter

Keys(S, n) == {[hasKey |-> FALSE, keyElements |-> <<>>]}
                  \cup {[hasKey |-> TRUE, keyElements |-> k] : k \in SeqsUpTo(S, n)}

\* One table: every key of up to MaxKeyLen elements, of all kinds and widths.
InitKey ==
    /\ \E k \in Keys(KeyElements, MaxKeyLen) :
           tables = <<Table(Str_t, k.hasKey, k.keyElements, DefaultActions,
                            "hash_table", DefaultSize)>>
    /\ enc = NoEncoding
    /\ Constructed

\* One table: every sequence of match kinds, implementation and size.
InitInstance ==
    /\ \E k \in Keys(MatchElements, MaxMatchLen), impl \in Impls, size \in Sizes :
           tables = <<Table(Str_t, k.hasKey, k.keyElements, DefaultActions,
                            impl, size)>>
    /\ enc = NoEncoding
    /\ Constructed

\* One static entry per action of the list, in list order, with key k for
\* the k-th action.
EntryPerAction(l) == Entries([k \in 1..Len(l) |-> Entry(k, l[k])])

\* Two tables: every pair of names and every action list that holds the
\* default action, each action also used by a static entry.
InitActions ==
    /\ \E j, k \in 1..Len(TableNames), l1, l2 \in ActionLists :
       \E d1 \in 1..Len(l1), d2 \in 1..Len(l2) :
           /\ j < k
           /\ tables = <<WithInitializer(Table(TableNames[j], TRUE, DefaultKey, l1,
                                               "hash_table", DefaultSize),
                                         l1[d1], EntryPerAction(l1)),
                         WithInitializer(Table(TableNames[k], TRUE, DefaultKey, l2,
                                               "hash_table", DefaultSize),
                                         l2[d2], EntryPerAction(l2))>>
    /\ enc = NoEncoding
    /\ Constructed

NextTable ==
    \/ \E i \in T : EmitTypes(i) /\ UNCHANGED counterVars
    \/ \E i \in T : EmitInstance(i) /\ UNCHANGED counterVars
    \/ \E i \in T : EmitKey(i) /\ UNCHANGED counterVars
    \/ \E i \in T : EmitAction(i) /\ UNCHANGED counterVars
    \/ \E i \in T : EmitInitializer(i) /\ UNCHANGED counterVars

SpecKey == InitKey /\ [][NextTable]_vars
SpecInstance == InitInstance /\ [][NextTable]_vars
SpecActions == InitActions /\ [][NextTable]_vars

\* One table with every default action of its list and every list of up to
\* MaxEntries static entries, or no entries property.
EntryLists ==
    {NoEntries} \cup
    {Entries(l) : l \in UNION {[1..n -> {Entry(k, a) : k \in EntryKeys,
                                                       a \in {DefaultActions[j] : j \in 1..Len(DefaultActions)}}] :
                               n \in 1..MaxEntries}}
InitInit ==
    /\ \E d \in 1..Len(DefaultActions), e \in EntryLists :
           tables = <<WithInitializer(Table(Str_t, TRUE, DefaultKey, DefaultActions,
                                            "hash_table", DefaultSize),
                                      DefaultActions[d], e)>>
    /\ enc = NoEncoding
    /\ Constructed

NextInit ==
    \/ NextTable
    \/ \E i \in T, ok \in BOOLEAN : RunOpen(i, ok) /\ UNCHANGED counterVars
    \/ \E i \in T, ok \in BOOLEAN : RunUpdate(i, ok) /\ UNCHANGED counterVars
    \/ \E i \in T : RunReturn(i) /\ UNCHANGED counterVars

SpecInit == InitInit /\ [][NextInit]_vars

\* One table with one key field, exact or lpm, of every width of
\* EncodeWidths, and every value of that width over Bytes, on both hosts.
EncodeWidths == {8, 16, 24, 32, 64}
InitEncode ==
    /\ \E m \in {"exact", "lpm"}, w \in EncodeWidths, host \in Hosts :
       \E source \in [1..bytesRequired(w) -> Bytes] :
           /\ tables = <<Table(Str_t, TRUE, <<KeyElement(m, TRUE, w)>>,
                               DefaultActions, "hash_table", DefaultSize)>>
           /\ enc = Encoding(host, source)
    /\ Constructed

NextEncode ==
    \/ NextTable
    \/ Encode /\ UNCHANGED counterVars
    \/ Decode /\ UNCHANGED counterVars

SpecEncode == InitEncode /\ [][NextEncode]_vars

\* Two tables, each with a key that is accepted or has one of the key
\* errors (no width, lpm not last, unsupported match kind, wider than 64
\* bits), with a valid or a missing implementation and a valid or an
\* invalid size.
UnitKeys ==
    {<<KeyElement("exact", TRUE, 32)>>,
     <<KeyElement("exact", FALSE, 0)>>,
     <<KeyElement("lpm", TRUE, 32), KeyElement("exact", TRUE, 32)>>,
     <<KeyElement("range", TRUE, 32)>>,
     <<KeyElement("exact", TRUE, 72)>>}
UnitImpls == {"hash_table", "missing"}
UnitSizes == {DefaultSize, Size("constant", TRUE, 0)}
InitUnit ==
    /\ \E k1, k2 \in UnitKeys, i1, i2 \in UnitImpls, s1, s2 \in UnitSizes :
           tables = <<Table(Str_t, TRUE, k1, DefaultActions, i1, s1),
                     Table(Str_b, TRUE, k2, DefaultActions, i2, s2)>>
    /\ enc = NoEncoding
    /\ Constructed

SpecUnit == InitUnit /\ [][NextTable]_vars

(***************************************************************************)
(* Claims about the compilation                                            *)
(***************************************************************************)
TypesEmitted(i) == step[i] \in {"instance", "key", "done"}
InstanceEmitted(i) == step[i] \in {"key", "done"}
KeyEmitted(i) == step[i] \in {"action", "initializer", "done"}
ActionEmitted(i) == step[i] \in {"initializer", "done"}
InitializerEmitted(i) == step[i] = "done"

KeyOf(i) == IF tables[i].hasKey THEN tables[i].keyElements ELSE <<>>
CountKind(i, m) == Cardinality({k \in 1..Len(KeyOf(i)) : KeyOf(i)[k].matchType = m})
Hint(i) == IF tables[i].impl = "array_table" THEN "TableArray" ELSE "TableHash"
ValidImpl(i) == tables[i].impl \in {"array_table", "hash_table"}
PrimaryDecls(i) ==
    {mapDecls[i][j] : j \in {j \in 1..Len(mapDecls[i]) :
                                mapDecls[i][j].map = "dataMapName"}}
Reported(i, msg) == \E j \in 1..Len(diag[i]) : diag[i][j].msg = msg

\* C5: a table with a ternary field and exactly one lpm field never gets
\* the kind LPMTrie for its primary map; it gets the hinted kind.
C5_TernaryWithLpmKeepsHint ==
    \A i \in T :
        (InstanceEmitted(i) /\ CountKind(i, "ternary") >= 1
                            /\ CountKind(i, "lpm") = 1) =>
            \A d \in PrimaryDecls(i) :
                d.kind # "TableLPMTrie" /\ d.kind = Hint(i)

\* C6 as stated: a table with two lpm fields and no ternary field gets the
\* error "only one LPM field allowed" and no map declaration.
C6_TwoLpmRejected ==
    \A i \in T :
        (InstanceEmitted(i) /\ CountKind(i, "lpm") = 2
                            /\ CountKind(i, "ternary") = 0) =>
            /\ Reported(i, "only one LPM field allowed")
            /\ mapDecls[i] = <<>>

\* C6 as amended: a table with two lpm fields and no ternary field gets no
\* map declaration, neither primary nor default-action, and when its
\* implementation binding is valid (array_table or hash_table) the error
\* reported is "only one LPM field allowed", an ERR_UNSUPPORTED.
C6_TwoLpmRejectedWithValidImpl ==
    \A i \in T :
        (InstanceEmitted(i) /\ CountKind(i, "lpm") = 2
                            /\ CountKind(i, "ternary") = 0) =>
            /\ mapDecls[i] = <<>>
            /\ ValidImpl(i) =>
                   \E j \in 1..Len(diag[i]) :
                       diag[i][j] = Error("ERR_UNSUPPORTED", "only one LPM field allowed")

C6_Witness ==
    /\ InstanceEmitted(1)
    /\ CountKind(1, "lpm") = 2
    /\ CountKind(1, "ternary") = 0
    /\ CountKind(1, "exact") = 1
    /\ ValidImpl(1)
    /\ tables[1].size = DefaultSize
    /\ Reported(1, "only one LPM field allowed")
    /\ mapDecls[1] = <<>>

Declared(i) == Len(KeyOf(i))
Placeholder(i) == IF Declared(i) = 0 THEN 1 ELSE 0
EmptyKeyRule(i) ==
    Declared(i) = 0 =>
        /\ Len(keyStruct[i]) = 1
        /\ keyStruct[i][1].name = "__dummy_table_key"
        /\ keyStruct[i][1].bits > 0

\* C7 as stated: the key struct has n + p + d fields, p = 1 iff some key
\* element is lpm, d = 1 iff n = 0; an empty key gives one placeholder.
C7_KeyStructFieldCount ==
    \A i \in T :
        TypesEmitted(i) =>
            /\ Len(keyStruct[i]) =
                   Declared(i) + (IF CountKind(i, "lpm") >= 1 THEN 1 ELSE 0)
                               + Placeholder(i)
            /\ EmptyKeyRule(i)

\* C7 as amended: the key struct has n + p + d fields, p = 1 iff some key
\* element is lpm and none is ternary (the prefix length is the first
\* field then), d = 1 iff n = 0; an empty key gives exactly one placeholder
\* field of non-zero size.
C7_KeyStructFieldCountNoTernary ==
    \A i \in T :
        TypesEmitted(i) =>
            LET p == IF CountKind(i, "lpm") >= 1 /\ CountKind(i, "ternary") = 0
                     THEN 1 ELSE 0
            IN  /\ Len(keyStruct[i]) = Declared(i) + p + Placeholder(i)
                /\ p = 1 => keyStruct[i][1] = KeyField("prefixlen", 32)
                /\ EmptyKeyRule(i)

C7_Witness ==
    /\ TypesEmitted(1)
    /\ CountKind(1, "lpm") = 1
    /\ CountKind(1, "ternary") = 1
    /\ Len(keyStruct[1]) = 2

\* The ID of the k-th action of the list of table i: 0 for NoAction, else
\* its rank among the actions that are not NoAction.
AssignedID(i, k) ==
    LET l == tables[i].actionList
    IN  IF isNoAction(l[k]) THEN 0
        ELSE Cardinality({j \in 1..k : ~isNoAction(l[j])})
\* The IDs the emitted #define lines of the unit give a macro name.
UsedIDs(name) ==
    IF name = <<"0">> THEN {0}
    ELSE UNION {{idDefines[i][j].id :
                    j \in {j \in 1..Len(idDefines[i]) : idDefines[i][j].name = name}} :
                i \in T}

\* C8: NoAction has ID 0, the other actions have the IDs 1..m in list order,
\* and the ID that the dispatch branch and the initializer use for an
\* action (the value of the name p4ActionToActionIDName gives it) is that ID.
C8_ActionIDs ==
    (\A i \in T : TypesEmitted(i)) =>
        \A i \in T :
            LET l == tables[i].actionList
                m == Cardinality({k \in 1..Len(l) : ~isNoAction(l[k])})
            IN  /\ Len(idDefines[i]) = m
                /\ \A j \in 1..m : idDefines[i][j].id = j
                /\ \A k \in 1..Len(l) :
                       UsedIDs(p4ActionToActionIDName(tables[i], l[k]))
                           = {AssignedID(i, k)}

\* C9: two different (table instance name, action external name) pairs of
\* the unit, NoAction excluded, get different macro names.
C9_ActionIDNamesUnique ==
    \A i, j \in T :
        (TypesEmitted(i) /\ TypesEmitted(j)) =>
            \A a \in 1..Len(tables[i].actionList), b \in 1..Len(tables[j].actionList) :
                LET x == tables[i].actionList[a]
                    y == tables[j].actionList[b]
                IN  (/\ ~isNoAction(x)
                     /\ ~isNoAction(y)
                     /\ <<tables[i].dataMapName, x.externalName>>
                            # <<tables[j].dataMapName, y.externalName>>)
                    => idDefines[i][AssignedID(i, a)].name
                           # idDefines[j][AssignedID(j, b)].name

\* The statement emitted for the k-th key element of table i.
StmtOf(i, k) ==
    LET j == CHOOSE j \in 1..Len(keyCode[i]) : keyCode[i][j].field = k - 1
    IN  keyCode[i][j]
Conversion(width) ==
    CASE width <= 8 -> ""
      [] width = 16 -> "bpf_htons"
      [] width = 32 -> "bpf_htonl"
      [] width = 64 -> "bpf_htonll"
      [] OTHER -> "none"
Native(width) == width \in {8, 16, 32, 64}

\* C10 as stated: a key field of a native width is assigned directly, wrapped
\* in the conversion of its size when wider than 8 bits; any other field is
\* copied byte-wise.
C10_NativeFieldsConverted ==
    \A i \in T :
        KeyEmitted(i) =>
            \A k \in 1..Len(KeyOf(i)) :
                LET c == KeyOf(i)[k]
                IN  IF Native(c.width)
                    THEN /\ StmtOf(i, k).op = "assign"
                         /\ StmtOf(i, k).swap = Conversion(c.width)
                    ELSE StmtOf(i, k).op \in {"memcpy", "bytes"}

\* C10 as amended: a key field of a native width is assigned directly; the
\* value is wrapped in the conversion of its size (16, 32 or 64 bits) only
\* when the field is the lpm field of an LPM table (a table with an lpm
\* field and no ternary field) and wider than 8 bits, and is assigned
\* unconverted otherwise; any other field is copied byte-wise.
C10_OnlyLpmFieldsConverted ==
    \A i \in T :
        KeyEmitted(i) =>
            \A k \in 1..Len(KeyOf(i)) :
                LET c == KeyOf(i)[k]
                    lpmField == /\ c.matchType = "lpm"
                                /\ CountKind(i, "ternary") = 0
                IN  IF Native(c.width)
                    THEN /\ StmtOf(i, k).op = "assign"
                         /\ StmtOf(i, k).swap =
                                (IF lpmField THEN Conversion(c.width) ELSE "")
                    ELSE StmtOf(i, k).op \in {"memcpy", "bytes"}

C10_Witness ==
    /\ KeyEmitted(1)
    /\ Len(KeyOf(1)) = 2
    /\ KeyOf(1)[1] = KeyElement("exact", TRUE, 32)
    /\ KeyOf(1)[2] = KeyElement("lpm", TRUE, 16)
    /\ StmtOf(1, 1).op = "assign"
    /\ StmtOf(1, 1).swap = ""
    /\ StmtOf(1, 2).op = "assign"
    /\ StmtOf(1, 2).swap = "bpf_htons"

\* The capacity of table i is absent, not an integer constant, too large for
\* the platform integer, or not positive.
InvalidCapacity(i) ==
    LET sz == tables[i].size
    IN  sz.kind # "constant" \/ ~sz.fitsInt \/ sz.value <= 0
ReportedType(i, type) == \E j \in 1..Len(diag[i]) : diag[i][j].type = type

\* C11: for a table with a key (a valid implementation binding and at most
\* one lpm field, so that the capacity is looked at), an absent, non-constant,
\* too large or non-positive capacity is reported as an invalid-size error
\* (ERR_INVALID) and no map is declared; any other capacity is the size of
\* the primary map declaration.
C11_InvalidCapacityRejected ==
    \A i \in T :
        (/\ InstanceEmitted(i)
         /\ tables[i].hasKey
         /\ ValidImpl(i)
         /\ CountKind(i, "lpm") <= 1) =>
            IF InvalidCapacity(i)
            THEN /\ ReportedType(i, "ERR_INVALID")
                 /\ mapDecls[i] = <<>>
            ELSE /\ PrimaryDecls(i) # {}
                 /\ \A d \in PrimaryDecls(i) : d.size = tables[i].size.value

InstanceMessages ==
    {"Table does not have an implementation property",
     "Expected property to be an extern block",
     "implementation must be one of array_table or hash_table",
     "only one LPM field allowed",
     "Expected an integer argument",
     "size too large",
     "negative size"}
InstanceSucceeded(i) ==
    /\ InstanceEmitted(i)
    /\ \A j \in 1..Len(diag[i]) : diag[i][j].msg \notin InstanceMessages

\* C12: when instance emission reports no error, a table with a key has
\* exactly two map declarations, the primary map (the selected kind, the key
\* struct, the value struct, the declared capacity) and then the
\* default-action map (an array of capacity 1), and a table without a key
\* has exactly the default-action map; without an lpm field the kind of the
\* primary map is the hint of the implementation.
C12_MapDeclarations ==
    \A i \in T :
        InstanceSucceeded(i) =>
            LET defaultAction == MapDecl("defaultActionMapName", "TableArray",
                                         "arrayIndexType", "struct valueTypeName", 1)
            IN  IF tables[i].hasKey
                THEN /\ Len(mapDecls[i]) = 2
                     /\ mapDecls[i][1].map = "dataMapName"
                     /\ mapDecls[i][1].kind \in {Hint(i), "TableLPMTrie"}
                     /\ CountKind(i, "lpm") = 0 => mapDecls[i][1].kind = Hint(i)
                     /\ mapDecls[i][1].keyType = "struct keyTypeName"
                     /\ mapDecls[i][1].valueType = "struct valueTypeName"
                     /\ mapDecls[i][1].size = tables[i].size.value
                     /\ mapDecls[i][2] = defaultAction
                ELSE mapDecls[i] = <<defaultAction>>

C12_Witness ==
    /\ InstanceSucceeded(1)
    /\ tables[1].hasKey
    /\ KeyOf(1) = <<KeyElement("exact", TRUE, 32), KeyElement("selector", TRUE, 32)>>
    /\ tables[1].impl = "hash_table"
    /\ tables[1].size = Size("constant", TRUE, 1024)
    /\ Len(mapDecls[1]) = 2
    /\ mapDecls[1][1].kind = "TableHash"
    /\ mapDecls[1][1].size = 1024
    /\ mapDecls[1][2].kind = "TableArray"

LpmPositionError == Error("ERR_UNSUPPORTED", "field key must be at the end of whole key")
LpmPositionErrors(i) ==
    Cardinality({j \in 1..Len(diag[i]) : diag[i][j] = LpmPositionError})
\* The lpm key elements of table i that are followed by an element whose
\* match kind is not selector.
MisplacedLpm(i) ==
    {k \in 1..Len(KeyOf(i)) :
        /\ KeyOf(i)[k].matchType = "lpm"
        /\ \E j \in (k + 1)..Len(KeyOf(i)) : KeyOf(i)[j].matchType # "selector"}

\* C17: key validation reports one ERR_UNSUPPORTED position error for each
\* lpm field that is followed by an element that is not a selector, and none
\* for an lpm field followed by selector fields only or by nothing; so an
\* error is reported exactly when some lpm field is not the last element
\* after ignoring trailing selectors.
C17_LpmPositionErrors ==
    \A i \in T :
        TypesEmitted(i) =>
            /\ LpmPositionErrors(i) = Cardinality(MisplacedLpm(i))
            /\ Reported(i, LpmPositionError.msg) <=> MisplacedLpm(i) # {}

C17_Witness ==
    /\ TypesEmitted(1)
    /\ KeyOf(1) = <<KeyElement("lpm", TRUE, 32), KeyElement("lpm", TRUE, 32),
                    KeyElement("selector", TRUE, 32)>>
    /\ MisplacedLpm(1) = {1}
    /\ LpmPositionErrors(1) = 1

(***************************************************************************)
(* Claims about the emitted initializer and dispatch                       *)
(***************************************************************************)
\* The steps of the initializer of table i: open the default-action map,
\* upsert the default action; with static entries, open the primary map and
\* upsert the entries in declaration order.
InitializerSteps(i) ==
    LET t == tables[i]
        upsert(which, key, a) ==
            InitStmt("update", which, key,
                     Value(p4ActionToActionIDName(t, a), a.externalName))
    IN  <<InitStmt("open", "defaultActionMapName", 0, NoValue),
          upsert("defaultActionMapName", 0, t.defaultAction)>>
        \o (IF t.entries.present
            THEN <<InitStmt("open", "dataMapName", 0, NoValue)>>
                 \o [k \in 1..Len(t.entries.list) |->
                        upsert("dataMapName", t.entries.list[k].key,
                               t.entries.list[k].action)]
            ELSE <<>>)
IsPrefix(a, b) == Len(a) <= Len(b) /\ \A k \in 1..Len(a) : a[k] = b[k]
\* The value the upserts of a log leave under a key of a map.
LastWrite(log, which, key) ==
    LET ws == {k \in 1..Len(log) : /\ log[k].op = "update"
                                   /\ log[k].map = which
                                   /\ log[k].key = key}
    IN  IF ws = {} THEN NoValue
        ELSE log[CHOOSE k \in ws : \A j \in ws : j <= k].value

\* C15: the initializer runs its steps in order and stops at the first
\* failure.  In every state the steps done are a prefix of the steps of the
\* table (default-action map first, the primary map only with static
\* entries, entries in declaration order) and the maps hold exactly the
\* writes of the steps done; after exit(1) the steps done are those before
\* the failed one, so nothing later is written and nothing is rolled back;
\* when the initializer returns every step is done.
C15_InitializerStopsAtFirstFailure ==
    \A i \in T :
        LET r == run[i]
            steps == InitializerSteps(i)
        IN  /\ IsPrefix(r.log, steps)
            /\ r.defaultMap = LastWrite(r.log, "defaultActionMapName", 0)
            /\ \A k \in EntryKeys : r.dataMap[k] = LastWrite(r.log, "dataMapName", k)
            /\ r.state = "running" => r.pc = Len(r.log) + 1
            /\ r.state = "exited" =>
                   /\ r.failedAt = Len(r.log) + 1
                   /\ r.failedAt <= Len(steps)
            /\ r.state = "returned" =>
                   /\ r.log = steps
                   /\ r.defaultMap.u = tables[i].defaultAction.externalName
                   /\ \A k \in 1..Len(tables[i].entries.list) :
                          r.dataMap[tables[i].entries.list[k].key] # NoValue

\* The upsert of the second of two static entries fails: the default action
\* and the first entry stay written, the second entry is not.
C15_Witness ==
    /\ run[1].state = "exited"
    /\ Len(tables[1].entries.list) = 2
    /\ tables[1].entries.list[1].key = 1
    /\ tables[1].entries.list[2].key = 2
    /\ run[1].failedAt = 5
    /\ run[1].defaultMap # NoValue
    /\ run[1].dataMap[1] # NoValue
    /\ run[1].dataMap[2] = NoValue

\* The cases of the emitted switch of table i and its "default:" branch.
Cases(i) == SubSeq(actionCode[i], 1, Len(actionCode[i]) - 1)
Fallback(i) == actionCode[i][Len(actionCode[i])]
\* The cases whose label has the value d; none: the fallback is taken.
Selected(i, d) == {k \in 1..Len(Cases(i)) : d \in UsedIDs(Cases(i)[k].label)}
\* The values the initializer of table i writes.
WrittenValues(i) ==
    {initCode[i][k].value : k \in {k \in 1..Len(initCode[i]) :
                                       initCode[i][k].op = "update"}}
Discriminants == 0..(MaxActions + 1)

\* C16: the switch has one case per action of the action list, labelled
\* with the ID of that action (0 for NoAction) and ended by a break, and a
\* fallback that returns the abort code; every value the initializer writes
\* (default action or action of a static entry) selects the case of that
\* same action and no other; the fallback is taken only for a discriminant
\* that is the ID of no action of the list.
C16_DispatchSelectsWrittenAction ==
    (\A i \in T : InitializerEmitted(i)) =>
        \A i \in T :
            LET l == tables[i].actionList
            IN  /\ Len(Cases(i)) = Len(l)
                /\ \A k \in 1..Len(l) :
                       /\ Cases(i)[k].name = l[k].externalName
                       /\ UsedIDs(Cases(i)[k].label) = {AssignedID(i, k)}
                       /\ Cases(i)[k].ends = "break"
                /\ Fallback(i).label = Str_default
                /\ Fallback(i).ends = "return abortReturnCode"
                /\ \A v \in WrittenValues(i) : \A d \in UsedIDs(v.action) :
                       Selected(i, d) = {k \in 1..Len(l) : l[k].externalName = v.u}
                /\ \A d \in Discriminants :
                       Selected(i, d) = {} <=>
                           d \notin {AssignedID(i, k) : k \in 1..Len(l)}

OutputOfStage(i, n) ==
    CASE n = 1 -> keyStruct[i] \o idDefines[i]
      [] n = 2 -> mapDecls[i]
      [] n = 3 -> keyCode[i]
      [] n = 4 -> actionCode[i]
      [] n = 5 -> initCode[i]
\* The last stage whose output comes before the report of an error: the
\* errors of initKey and validateKeys come before all output, the error of
\* emitKeyType within the types, the errors of emitInstance before its
\* declarations, the error of emitKey within the key code.
ErrorStage(msg) ==
    CASE msg = "illegal type for key field" -> 0
      [] msg = "field key must be at the end of whole key" -> 0
      [] msg = "Match of type not supported" -> 1
      [] msg \in InstanceMessages -> 1
      [] msg = "fields wider than 64 bits are not supported yet" -> 3
Finished == ~Running \/ \A i \in T : step[i] = "done"
\* The complete output of table i, as emitted for that table alone.
OutputAlone(i) ==
    LET t == tables[i]
    IN  /\ keyStruct[i] = emitKeyType(t, initKeyNames(t))
        /\ idDefines[i] = emitValueActionIDNames(t)
        /\ mapDecls[i] = emitInstance(t).decls
        /\ keyCode[i] = emitKey(t, initKeyNames(t))
        /\ actionCode[i] = emitAction(t)
        /\ initCode[i] = emitInitializer(t)

\* C13: once an error is reported for a table nothing more is emitted for
\* it (no key or value struct text, no map declaration, no key code,
\* dispatch or initializer after the error), and at the end of the
\* compilation every table without an error has its whole output.
C13_NoOutputAfterError ==
    /\ \A i \in T : \A j \in 1..Len(diag[i]) : \A n \in 1..5 :
           n > ErrorStage(diag[i][j].msg) => OutputOfStage(i, n) = <<>>
    /\ Finished =>
           \A i \in T : diag[i] = <<>> => (step[i] = "done" /\ OutputAlone(i))

====
